---- MODULE Spec2Model ----
(***************************************************************************)
(* Model of GridGame (src/main.py): a knight's-move numbering game on a    *)
(* rectangular grid, with the Warnsdorff estimate of the longest path.     *)
(***************************************************************************)
EXTENDS Integers, Sequences, FiniteSets, TLC

(* ------------------------------ bounds --------------------------------- *)
\* Grids with at most MaxCells cells are explored exhaustively (Spec).
MaxCells == 12
\* Grids with at most MaxWideCells cells are explored exhaustively (SpecWide).
MaxWideCells == 15
\* Grids with at most MaxPixelCells cells are explored with clicks at the
\* edges of the cells as well as at their centres (SpecPixels).
MaxPixelCells == 9
\* The default 10x5 grid is explored up to this many accepted clicks.
MaxDefaultMoves == 2

(* ------------------------- program constants --------------------------- *)
cell_size == 60
DefaultGridSizeX == 5
DefaultGridSizeY == 10

None == <<>>

VARIABLES
    grid_size_x,        \* width of the grid (columns)
    grid_size_y,        \* height of the grid (rows)
    grid,               \* grid[row][col]: 0 or the visiting order
    counter,            \* next number to write
    last_clicked,       \* None or <<row, col>>
    game_over,          \* terminal flag
    max_possible_moves, \* Warnsdorff estimate computed by reset_game
    running,            \* the loop variable of run()
    outcome             \* which branch of the event loop the last event took

vars == <<grid_size_x, grid_size_y, grid, counter, last_clicked, game_over,
          max_possible_moves, running, outcome>>

game == <<grid, counter, last_clicked, game_over>>

(* ------------------------------ helpers -------------------------------- *)
Abs(n) == IF n < 0 THEN -n ELSE n

\* Python list indexing: a negative index counts from the end, anything
\* outside -n .. n-1 raises IndexError (modelled as -1).
PyIndex(i, n) ==
    IF 0 <= i /\ i < n THEN i
    ELSE IF -n <= i /\ i < 0 THEN i + n
    ELSE -1

\* Result of a Python call: a returned value or a raised exception.
Return(v) == [raised |-> FALSE, value |-> v]
Raise == [raised |-> TRUE, value |-> FALSE]

InBounds(row, col) ==
    0 <= row /\ row < grid_size_y /\ 0 <= col /\ col < grid_size_x

KnightDisplacement(row_diff, col_diff) ==
    (row_diff = 2 /\ col_diff = 1) \/ (row_diff = 1 /\ col_diff = 2)

(* ----------------------- Warnsdorff estimator -------------------------- *)
KnightOffsets ==
    << <<2, 1>>, <<2, -1>>, <<-2, 1>>, <<-2, -1>>,
       <<1, 2>>, <<1, -2>>, <<-1, 2>>, <<-1, -2>> >>

get_valid_neighbors(pos, visited, R, C) ==
    LET moves == [k \in 1..8 |-> <<pos[1] + KnightOffsets[k][1],
                                   pos[2] + KnightOffsets[k][2]>>]
        Keep(m) == /\ 0 <= m[1] /\ m[1] < R
                   /\ 0 <= m[2] /\ m[2] < C
                   /\ m \notin visited
    IN  SelectSeq(moves, Keep)

\* min(neighbors, key=...) returning the last element with the least key
MinByOnwardMoves_last(neighbors, visited, R, C) ==
    LET key(i) == Len(get_valid_neighbors(neighbors[i], visited, R, C))
        best == CHOOSE i \in 1..Len(neighbors) :
                    /\ \A j \in 1..Len(neighbors) : key(i) <= key(j)
                    /\ \A j \in (i + 1)..Len(neighbors) : key(j) > key(i)
    IN  neighbors[best]

\* Python's min(neighbors, key=...): the first element with the least key.
MinByOnwardMoves(neighbors, visited, R, C) ==
    LET key(i) == Len(get_valid_neighbors(neighbors[i], visited, R, C))
        best == CHOOSE i \in 1..Len(neighbors) :
                    /\ \A j \in 1..Len(neighbors) : key(i) <= key(j)
                    /\ \A j \in 1..(i - 1) : key(j) > key(i)
    IN  neighbors[best]

RECURSIVE TourLoop(_, _, _, _)
TourLoop(pos, visited, R, C) ==
    LET neighbors == get_valid_neighbors(pos, visited, R, C)
    IN  IF Len(neighbors) = 0
        THEN visited
        ELSE LET next_pos == MinByOnwardMoves(neighbors, visited, R, C)
             IN  TourLoop(next_pos, visited \cup {next_pos}, R, C)

\* The iterations of the while loop of warnsdorff_tour: the sequence of
\* <<pos, visited>> at the head of the loop, up to the one where it breaks.
RECURSIVE TourTrace(_, _, _, _)
TourTrace(pos, visited, R, C) ==
    LET neighbors == get_valid_neighbors(pos, visited, R, C)
    IN  IF Len(neighbors) = 0
        THEN << <<pos, visited>> >>
        ELSE LET next_pos == MinByOnwardMoves(neighbors, visited, R, C)
             IN  << <<pos, visited>> >>
                    \o TourTrace(next_pos, visited \cup {next_pos}, R, C)

\* warnsdorff_tour returning the number of moves instead of len(visited)
warnsdorff_tour_counts_moves(start_pos, R, C) ==
    Cardinality(TourLoop(start_pos, {start_pos}, R, C)) - 1

warnsdorff_tour(start_pos, R, C) ==
    Cardinality(TourLoop(start_pos, {start_pos}, R, C))

\* the double loop of calculate_max_moves: max_moves starts at 0 and takes the
\* maximum of the tour lengths over all start cells (i, j)
calculate_max_moves(R, C) ==
    LET lengths == { warnsdorff_tour(<<i, j>>, R, C) :
                        i \in 0..(R - 1), j \in 0..(C - 1) } \cup {0}
    IN  CHOOSE m \in lengths : \A n \in lengths : n <= m

(* --------------------------- configurations ---------------------------- *)
DefaultDims == <<DefaultGridSizeY, DefaultGridSizeX>>

DimsUpTo(n) == { d \in (1..n) \X (1..n) : d[1] * d[2] <= n } \cup {DefaultDims}

Dims == DimsUpTo(MaxCells)

WideDims == DimsUpTo(MaxWideCells)

\* calculate_max_moves depends on the dimensions only; one evaluation per
\* configuration.
MaxMovesTable == { <<d, calculate_max_moves(d[1], d[2])>> : d \in Dims \cup WideDims }

MaxMovesOf(R, C) == (CHOOSE e \in MaxMovesTable : e[1] = <<R, C>>)[2]

\* the cells of the tour that warnsdorff_tour builds from start_pos, in the
\* order the loop visits them
TourCells(start_pos, R, C) ==
    LET T == TourTrace(start_pos, {start_pos}, R, C)
    IN  [k \in 1..Len(T) |-> T[k][1]]

\* the tours depend on the dimensions and the start only; one evaluation each
TourTable ==
    UNION { { <<d, s, TourCells(s, d[1], d[2])>> :
                s \in (0..(d[1] - 1)) \X (0..(d[2] - 1)) } :
            d \in Dims \cup WideDims }

TourOf(R, C, start_pos) ==
    (CHOOSE e \in TourTable : e[1] = <<R, C>> /\ e[2] = start_pos)[3]

(* ------------------------------ game ----------------------------------- *)
EmptyGrid(R, C) == [r \in 0..(R - 1) |-> [c \in 0..(C - 1) |-> 0]]

\* get_cell_position with x and y taken in the wrong order
get_cell_position_swapped(mouse_pos) ==
    <<mouse_pos[1] \div cell_size, mouse_pos[2] \div cell_size>>

get_cell_position(mouse_pos) ==
    <<mouse_pos[2] \div cell_size, mouse_pos[1] \div cell_size>>

\* is_valid_move without the test of the displacement
is_valid_move_any_displacement(row, col) ==
    IF last_clicked = None
    THEN Return(TRUE)
    ELSE LET r == PyIndex(row, grid_size_y)
             c == PyIndex(col, grid_size_x)
         IN  IF r = -1 \/ c = -1 THEN Raise ELSE Return(grid[r][c] = 0)

\* is_valid_move without the test of the target cell's value
is_valid_move_any_cell(row, col) ==
    IF last_clicked = None
    THEN Return(TRUE)
    ELSE Return(KnightDisplacement(Abs(row - last_clicked[1]),
                                   Abs(col - last_clicked[2])))

is_valid_move(row, col) ==
    IF last_clicked = None
    THEN Return(TRUE)
    ELSE LET row_diff == Abs(row - last_clicked[1])
             col_diff == Abs(col - last_clicked[2])
         IN  IF ~KnightDisplacement(row_diff, col_diff)
             THEN Return(FALSE)
             ELSE LET r == PyIndex(row, grid_size_y)
                      c == PyIndex(col, grid_size_x)
                  IN  IF r = -1 \/ c = -1
                      THEN Raise
                      ELSE Return(grid[r][c] = 0)

\* has_valid_moves that finds a move whenever a move was made
has_valid_moves_never_false(g, last) == TRUE

\* has_valid_moves without the test that the cell is empty
has_valid_moves_any_cell(g, last) ==
    IF last = None
    THEN TRUE
    ELSE \E i \in 0..(grid_size_y - 1), j \in 0..(grid_size_x - 1) :
            KnightDisplacement(Abs(i - last[1]), Abs(j - last[2]))

has_valid_moves(g, last) ==
    IF last = None
    THEN TRUE
    ELSE \E i \in 0..(grid_size_y - 1), j \in 0..(grid_size_x - 1) :
            /\ g[i][j] = 0
            /\ KnightDisplacement(Abs(i - last[1]), Abs(j - last[2]))

(* ------------------------------ actions -------------------------------- *)
InitWith(D) ==
    /\ \E d \in D :
          /\ grid_size_y = d[1]
          /\ grid_size_x = d[2]
          /\ grid = EmptyGrid(d[1], d[2])
          /\ max_possible_moves = MaxMovesOf(d[1], d[2])
    /\ counter = 1
    /\ last_clicked = None
    /\ game_over = FALSE
    /\ running = TRUE
    /\ outcome = "none"

Init == InitWith(Dims)

InitWide == InitWith(WideDims)

\* reset_game without the reset of the terminal flag
reset_game_keeps_flag ==
    /\ grid' = EmptyGrid(grid_size_y, grid_size_x)
    /\ counter' = 1
    /\ last_clicked' = None
    /\ game_over' = game_over
    /\ max_possible_moves' = MaxMovesOf(grid_size_y, grid_size_x)

reset_game ==
    /\ grid' = EmptyGrid(grid_size_y, grid_size_x)
    /\ counter' = 1
    /\ last_clicked' = None
    /\ game_over' = FALSE
    /\ max_possible_moves' = MaxMovesOf(grid_size_y, grid_size_x)

\* Grids that are explored: small ones fully, the default one to a depth.
Explored ==
    \/ <<grid_size_y, grid_size_x>> # DefaultDims
    \/ counter <= MaxDefaultMoves

\* Click inputs: the centre pixel of every cell, and of one ring of cells
\* around the grid (the text strip below it, and positions off the window).
PixelAt(r, c) ==
    <<c * cell_size + cell_size \div 2, r * cell_size + cell_size \div 2>>

MousePositions ==
    { PixelAt(r, c) : r \in -1..grid_size_y, c \in -1..grid_size_x }

Keys == {"K_r", "K_other"}

\* the click handler's body without the increment of counter
accept_click_no_increment(row, col) ==
    /\ grid' = [grid EXCEPT ![row][col] = counter]
    /\ counter' = counter
    /\ last_clicked' = <<row, col>>
    /\ game_over' = ~has_valid_moves(grid', last_clicked')

\* the click handler's body with the terminal test made before the move
\* is recorded
accept_click_stale_check(row, col) ==
    /\ grid' = [grid EXCEPT ![row][col] = counter]
    /\ counter' = counter + 1
    /\ last_clicked' = <<row, col>>
    /\ game_over' = ~has_valid_moves(grid, last_clicked)

\* the click handler's body with the counter incremented before it is
\* written into the grid
accept_click_increment_first(row, col) ==
    /\ grid' = [grid EXCEPT ![row][col] = counter + 1]
    /\ counter' = counter + 1
    /\ last_clicked' = <<row, col>>
    /\ game_over' = ~has_valid_moves(grid', last_clicked')

\* the body of the click handler: lines 163-172 of run()
accept_click(row, col) ==
    /\ grid' = [grid EXCEPT ![row][col] = counter]
    /\ counter' = counter + 1
    /\ last_clicked' = <<row, col>>
    /\ game_over' = ~has_valid_moves(grid', last_clicked')

\* the click handler's condition without its bounds test
click_condition_no_bounds(row, col) == is_valid_move(row, col)

\* The condition of the click handler, evaluated left to right:
\* 0 <= row < grid_size_y and 0 <= col < grid_size_x and is_valid_move(row, col)
click_condition(row, col) ==
    IF InBounds(row, col) THEN is_valid_move(row, col) ELSE Return(FALSE)

\* the click handler without "and not self.game_over": a click in a terminal
\* state starts a new game
MouseButtonDown_restarts(mouse_pos) ==
    /\ running
    /\ Explored
    /\ UNCHANGED <<grid_size_x, grid_size_y, running>>
    /\ IF game_over
       THEN /\ reset_game
            /\ outcome' = "reset"
       ELSE LET row == get_cell_position(mouse_pos)[1]
                col == get_cell_position(mouse_pos)[2]
            IN  /\ UNCHANGED max_possible_moves
                /\ IF click_condition(row, col).value
                   THEN accept_click(row, col) /\ outcome' = "accepted"
                   ELSE /\ outcome' = "rejected"
                        /\ UNCHANGED <<grid, counter, last_clicked, game_over>>

\* event.type == MOUSEBUTTONDOWN
MouseButtonDown(mouse_pos) ==
    /\ running
    /\ Explored
    /\ UNCHANGED <<grid_size_x, grid_size_y, max_possible_moves>>
    /\ IF game_over
       THEN /\ outcome' = "ignored"
            /\ UNCHANGED <<grid, counter, last_clicked, game_over, running>>
       ELSE LET cell == get_cell_position(mouse_pos)
                row == cell[1]
                col == cell[2]
                valid == click_condition(row, col)
            IN  IF valid.raised
                THEN \* an uncaught IndexError leaves run()
                     /\ outcome' = "IndexError"
                     /\ running' = FALSE
                     /\ UNCHANGED <<grid, counter, last_clicked, game_over>>
                ELSE IF valid.value
                THEN /\ accept_click(row, col)
                     /\ outcome' = "accepted"
                     /\ UNCHANGED running
                ELSE /\ outcome' = "rejected"
                     /\ UNCHANGED <<grid, counter, last_clicked, game_over, running>>

\* event.type == KEYDOWN
KeyDown(key) ==
    /\ running
    /\ UNCHANGED <<grid_size_x, grid_size_y, running>>
    /\ IF key = "K_r"
       THEN /\ reset_game
            /\ outcome' = "reset"
       ELSE /\ outcome' = "none"
            /\ UNCHANGED <<grid, counter, last_clicked, game_over,
                           max_possible_moves>>

\* event.type == QUIT
Quit ==
    /\ running
    /\ running' = FALSE
    /\ outcome' = "none"
    /\ UNCHANGED <<grid_size_x, grid_size_y, grid, counter, last_clicked,
                   game_over, max_possible_moves>>

Next ==
    \/ \E mouse_pos \in MousePositions : MouseButtonDown(mouse_pos)
    \/ \E key \in Keys : KeyDown(key)
    \/ Quit

Spec == Init /\ [][Next]_vars

SpecWide == InitWide /\ [][Next]_vars

\* Click inputs at the first, the middle and the last pixel of every cell and
\* of one ring of cells around the grid.
PixelOffsets == {0, cell_size \div 2, cell_size - 1}

PixelPositions ==
    { <<c * cell_size + o, r * cell_size + o>> :
        r \in -1..grid_size_y, c \in -1..grid_size_x, o \in PixelOffsets }

InitPixels == InitWith(DimsUpTo(MaxPixelCells) \ {DefaultDims})

NextPixels ==
    \/ \E mouse_pos \in PixelPositions : MouseButtonDown(mouse_pos)
    \/ \E key \in Keys : KeyDown(key)
    \/ Quit

SpecPixels == InitPixels /\ [][NextPixels]_vars

\* a click that the handler accepts
AcceptedClick ==
    \E mouse_pos \in MousePositions :
        MouseButtonDown(mouse_pos) /\ counter' = counter + 1

\* the player keeps clicking cells that are accepted while there is one
SpecFair == Spec /\ WF_vars(AcceptedClick)

(* ------------------------------ rendering ------------------------------ *)
\* the fill of cell (i, j) with every cell tinted by its knight displacement
\* alone
cell_fill_any_cell(i, j) ==
    IF game_over
    THEN "red"
    ELSE IF last_clicked # None
            /\ KnightDisplacement(Abs(i - last_clicked[1]),
                                  Abs(j - last_clicked[2]))
         THEN "green"
         ELSE "white"

\* the fill the render step gives cell (i, j): lines 185-194 of run()
cell_fill(i, j) ==
    IF game_over
    THEN "red"
    ELSE IF last_clicked # None
            /\ KnightDisplacement(Abs(i - last_clicked[1]),
                                  Abs(j - last_clicked[2]))
            /\ grid[i][j] = 0
         THEN "green"
         ELSE "white"

\* the cells drawn as candidates
Highlighted ==
    { p \in (0..(grid_size_y - 1)) \X (0..(grid_size_x - 1)) :
        cell_fill(p[1], p[2]) = "green" }

(* ===================== properties of the program ====================== *)
\* the cell a click at mouse_pos refers to
RowOf(mouse_pos) == get_cell_position(mouse_pos)[1]
ColOf(mouse_pos) == get_cell_position(mouse_pos)[2]

\* the offset from last_clicked to (row, col) is a knight's move
KnightFromLast(row, col) ==
    /\ last_clicked # None
    /\ << Abs(row - last_clicked[1]), Abs(col - last_clicked[2]) >>
            \in { <<2, 1>>, <<1, 2>> }

Visited(row, col) == InBounds(row, col) /\ grid[row][col] # 0

\* the three ways a click target is invalid
Rejectable(row, col) ==
    \/ ~InBounds(row, col)
    \/ Visited(row, col)
    \/ (last_clicked # None /\ ~KnightFromLast(row, col))

\* C1: a click whose target cell is out of bounds, already visited or not at
\* a knight displacement from last_clicked leaves grid, counter,
\* last_clicked and game_over exactly as they were.
C1_RejectedClickUnchanged ==
    [][ \A mouse_pos \in MousePositions :
          (MouseButtonDown(mouse_pos)
              /\ Rejectable(RowOf(mouse_pos), ColOf(mouse_pos)))
          => UNCHANGED game ]_vars

\* C1 witness: a click was rejected in the middle of a game.
C1_Witness ==
    /\ outcome = "rejected"
    /\ counter > 2
    /\ ~game_over

\* Arguments tried on is_valid_move: every in-bounds index, the negative
\* indices Python wraps around, and one index beyond each end.
RowArgs == (-(grid_size_y + 1))..(grid_size_y + 1)
ColArgs == (-(grid_size_x + 1))..(grid_size_x + 1)

\* C2 (as stated): on a non-first move is_valid_move(row, col) returns true
\* iff the displacement is a knight's move, grid[row][col] is 0 and (row, col)
\* is in bounds, and returns false for every other integer pair.
C2_AsStated ==
    last_clicked # None =>
        \A row \in RowArgs, col \in ColArgs :
            is_valid_move(row, col) =
                Return(/\ KnightFromLast(row, col)
                       /\ InBounds(row, col)
                       /\ grid[row][col] = 0)

\* C2 (amended): on a non-first move, for in-bounds (row, col)
\* is_valid_move returns true iff the displacement is a knight's move and
\* grid[row][col] is 0; for out-of-bounds pairs not at a knight displacement
\* it returns false; and the click handler's whole condition (bounds test,
\* then is_valid_move) is true iff knight's move, empty and in bounds, and
\* never raises.
C2_ValidMoveInBounds ==
    last_clicked # None =>
        \A row \in RowArgs, col \in ColArgs :
            /\ InBounds(row, col) =>
                  is_valid_move(row, col) =
                      Return(KnightFromLast(row, col) /\ grid[row][col] = 0)
            /\ (~InBounds(row, col) /\ ~KnightFromLast(row, col)) =>
                  is_valid_move(row, col) = Return(FALSE)
            /\ click_condition(row, col) =
                  Return(/\ KnightFromLast(row, col)
                         /\ InBounds(row, col)
                         /\ grid[row][col] = 0)

\* C2 witness: a non-first move with a valid target, a visited cell at a
\* knight's move, and an out-of-bounds pair at a knight's move.
C2_Witness ==
    /\ last_clicked # None
    /\ \E row \in RowArgs, col \in ColArgs :
          InBounds(row, col) /\ is_valid_move(row, col) = Return(TRUE)
    /\ \E row \in RowArgs, col \in ColArgs :
          Visited(row, col) /\ KnightFromLast(row, col)
    /\ \E row \in RowArgs, col \in ColArgs :
          ~InBounds(row, col) /\ KnightFromLast(row, col)

\* C3 (as stated): on the first move is_valid_move(row, col) is true for
\* every in-bounds empty cell and false for every out-of-bounds (row, col).
C3_AsStated ==
    last_clicked = None =>
        \A row \in RowArgs, col \in ColArgs :
            /\ (InBounds(row, col) /\ grid[row][col] = 0) =>
                  is_valid_move(row, col) = Return(TRUE)
            /\ ~InBounds(row, col) =>
                  is_valid_move(row, col) = Return(FALSE)

\* C3 (amended): on the first move is_valid_move(row, col) is true for every
\* (row, col), in bounds or not; every in-bounds cell is empty; and the click
\* handler's whole condition is true for exactly the in-bounds cells.
C3_FirstMove ==
    last_clicked = None =>
        \A row \in RowArgs, col \in ColArgs :
            /\ is_valid_move(row, col) = Return(TRUE)
            /\ InBounds(row, col) => grid[row][col] = 0
            /\ click_condition(row, col) = Return(InBounds(row, col))

\* C3 witness: a first click outside the grid was rejected.
C3_Witness ==
    /\ last_clicked = None
    /\ outcome = "rejected"

\* a click at (row, col) that the rules accept
Acceptable(row, col) == ~game_over /\ ~Rejectable(row, col)

Cells == (0..(grid_size_y - 1)) \X (0..(grid_size_x - 1))

CellsHolding(v) == { p \in Cells : grid[p[1]][p[2]] = v }

\* the non-zero grid values are exactly 1..counter-1, each in one cell
NumberedOnce ==
    /\ \A p \in Cells : grid[p[1]][p[2]] \in 0..(counter - 1)
    /\ \A v \in 1..(counter - 1) : Cardinality(CellsHolding(v)) = 1

\* C4: in every reachable state the non-zero grid values are exactly
\* {1..counter-1}, each held by exactly one cell, every other cell is 0;
\* counter increases by exactly 1 on every accepted click and does not
\* change on a rejected click.
C4_NumberingAndCounter ==
    /\ []NumberedOnce
    /\ [][ \A mouse_pos \in MousePositions :
              MouseButtonDown(mouse_pos) =>
                  counter' = IF Acceptable(RowOf(mouse_pos), ColOf(mouse_pos))
                             THEN counter + 1
                             ELSE counter ]_vars

\* C4 witness: several moves were accepted, then a click was rejected.
C4_Witness ==
    /\ counter >= 4
    /\ outcome = "rejected"
    /\ NumberedOnce

\* some unvisited in-bounds cell is a knight's move from last_clicked
MoveRemains ==
    \E p \in Cells : grid[p[1]][p[2]] = 0 /\ KnightFromLast(p[1], p[2])

\* C5: in every reachable state game_over is true iff last_clicked is set
\* and no unvisited in-bounds cell is a knight's move from last_clicked;
\* game_over turns from false to true only on an accepted click after which
\* has_valid_moves() is false, and every such click turns it true.
C5_GameOverExactly ==
    /\ [](game_over <=> (last_clicked # None /\ ~MoveRemains))
    /\ [][ (~game_over /\ game_over') =>
              /\ \E mouse_pos \in MousePositions :
                     /\ MouseButtonDown(mouse_pos)
                     /\ Acceptable(RowOf(mouse_pos), ColOf(mouse_pos))
              /\ ~has_valid_moves(grid', last_clicked') ]_vars
    /\ [][ \A mouse_pos \in MousePositions :
              (/\ MouseButtonDown(mouse_pos)
               /\ Acceptable(RowOf(mouse_pos), ColOf(mouse_pos))
               /\ ~has_valid_moves(grid', last_clicked'))
              => game_over' ]_vars

\* C5 witness: an accepted click ended a game of several moves while
\* unvisited cells remain.
C5_Witness ==
    /\ game_over
    /\ outcome = "accepted"
    /\ counter >= 4
    /\ CellsHolding(0) # {}

\* C6: once game_over is true, a click at any position changes nothing, and
\* game_over goes from true back to false only through reset_game (key R).
C6_TerminalAbsorbs ==
    /\ [][ \A mouse_pos \in MousePositions :
              (game_over /\ MouseButtonDown(mouse_pos)) =>
                  UNCHANGED <<game, max_possible_moves,
                              grid_size_x, grid_size_y, running>> ]_vars
    /\ [][ (game_over /\ ~game_over') =>
              /\ KeyDown("K_r")
              /\ grid' = EmptyGrid(grid_size_y, grid_size_x)
              /\ counter' = 1
              /\ last_clicked' = None ]_vars

\* C6 witness: a click arrived after the game was over.
C6_Witness ==
    /\ game_over
    /\ outcome = "ignored"
    /\ counter >= 3

\* C7: reset_game in any reachable state yields counter = 1, every grid cell
\* 0, last_clicked = None, game_over = false, and the same
\* max_possible_moves as before the reset.
C7_Reset ==
    [][ KeyDown("K_r") =>
          /\ counter' = 1
          /\ \A r \in 0..(grid_size_y - 1), c \in 0..(grid_size_x - 1) :
                grid'[r][c] = 0
          /\ DOMAIN grid' = 0..(grid_size_y - 1)
          /\ last_clicked' = None
          /\ game_over' = FALSE
          /\ max_possible_moves' = max_possible_moves ]_vars

\* C7 witness: the game has just been reset.
C7_Witness ==
    /\ outcome = "reset"
    /\ counter = 1
    /\ last_clicked = None
    /\ ~game_over

NoKnightPair(R, C) ==
    \A p \in (0..(R - 1)) \X (0..(C - 1)), q \in (0..(R - 1)) \X (0..(C - 1)) :
        ~KnightDisplacement(Abs(p[1] - q[1]), Abs(p[2] - q[2]))

\* C9: on a grid in which no two cells are a knight's move apart, the
\* Warnsdorff tour from every start has length 1 and calculate_max_moves
\* returns 1.
C9_NoKnightPairGrid ==
    NoKnightPair(grid_size_y, grid_size_x) =>
        /\ \A p \in Cells : warnsdorff_tour(p, grid_size_y, grid_size_x) = 1
        /\ calculate_max_moves(grid_size_y, grid_size_x) = 1
        /\ max_possible_moves = 1

\* C9 witness: the 1x2 grid, after its only possible move.
C9_Witness ==
    /\ grid_size_y = 1
    /\ grid_size_x = 2
    /\ NoKnightPair(grid_size_y, grid_size_x)
    /\ max_possible_moves = 1
    /\ counter = 2
    /\ game_over

\* C10: an accepted click at in-bounds cell p in an active state writes the
\* old counter into grid[p], increments counter, sets last_clicked to p and
\* leaves every other cell and max_possible_moves unchanged; no step makes
\* more than one move; on the 10x5 grid, after a first click at (0,0), a
\* click at (2,1) is accepted and a click at (1,1) leaves counter = 2 and
\* grid[(0,0)] = 1 the only numbered cell.
C10_AcceptedClickEffect ==
    /\ [][ \A mouse_pos \in MousePositions :
              LET row == RowOf(mouse_pos)
                  col == ColOf(mouse_pos)
              IN  (MouseButtonDown(mouse_pos) /\ Acceptable(row, col)) =>
                      /\ grid'[row][col] = counter
                      /\ counter' = counter + 1
                      /\ last_clicked' = <<row, col>>
                      /\ \A p \in Cells :
                            p # <<row, col>> =>
                                grid'[p[1]][p[2]] = grid[p[1]][p[2]]
                      /\ max_possible_moves' = max_possible_moves ]_vars
    /\ [][ counter' <= counter + 1 ]_vars
    /\ [][ (/\ <<grid_size_y, grid_size_x>> = DefaultDims
            /\ last_clicked = <<0, 0>>
            /\ counter = 2) =>
              /\ MouseButtonDown(PixelAt(2, 1)) =>
                    /\ grid' = [grid EXCEPT ![2][1] = 2]
                    /\ counter' = 3
              /\ MouseButtonDown(PixelAt(1, 1)) =>
                    /\ counter' = 2
                    /\ grid' = [EmptyGrid(grid_size_y, grid_size_x)
                                    EXCEPT ![0][0] = 1] ]_vars

\* C10 witness: on the 10x5 grid, (0,0) then (2,1) were clicked and accepted.
C10_Witness ==
    /\ <<grid_size_y, grid_size_x>> = DefaultDims
    /\ grid[0][0] = 1
    /\ grid[2][1] = 2
    /\ counter = 3
    /\ last_clicked = <<2, 1>>
    /\ outcome = "accepted"

\* the unvisited in-bounds cells a knight's move from p
OpenNeighbours(p, visited) ==
    { q \in Cells \ visited :
        KnightDisplacement(Abs(q[1] - p[1]), Abs(q[2] - p[2])) }

OnwardCount(q, visited) == Cardinality(OpenNeighbours(q, visited))

\* the place of the offset from p to q in the fixed order of the 8 offsets
OffsetOrder(p, q) ==
    CHOOSE k \in 1..8 : q = <<p[1] + KnightOffsets[k][1],
                              p[2] + KnightOffsets[k][2]>>

\* one tour follows Warnsdorff's rule from start s
WarnsdorffTourFrom(s) ==
    LET T == TourTrace(s, {s}, grid_size_y, grid_size_x)
        last == T[Len(T)]
    IN  /\ T[1] = <<s, {s}>>
        /\ \A k \in 1..(Len(T) - 1) :
              LET pos == T[k][1]
                  visited == T[k][2]
                  next_pos == T[k + 1][1]
                  open == OpenNeighbours(pos, visited)
              IN  /\ next_pos \in open
                  /\ T[k + 1][2] = visited \cup {next_pos}
                  /\ \A q \in open :
                        \/ OnwardCount(next_pos, visited) < OnwardCount(q, visited)
                        \/ /\ OnwardCount(next_pos, visited) = OnwardCount(q, visited)
                           /\ OffsetOrder(pos, next_pos) <= OffsetOrder(pos, q)
        /\ OpenNeighbours(last[1], last[2]) = {}
        /\ Cardinality(last[2]) = Len(T)
        /\ TourLoop(s, {s}, grid_size_y, grid_size_x) = last[2]
        /\ warnsdorff_tour(s, grid_size_y, grid_size_x) = Cardinality(last[2])

\* a game that has just been set up by reset_game
FreshGame == running /\ last_clicked = None

\* C11: for every start cell the tour of calculate_max_moves begins with
\* visited = {s}, moves at each step to an unvisited in-bounds knight
\* neighbour with the least count of unvisited in-bounds knight neighbours
\* (the first such in the offset order), stops only when there is none, and
\* has the length of its visited set; the value returned, and stored in
\* max_possible_moves, is the maximum tour length over all start cells.
C11_WarnsdorffProcedure ==
    FreshGame =>
        /\ \A s \in Cells : WarnsdorffTourFrom(s)
        /\ \E s \in Cells :
              max_possible_moves = warnsdorff_tour(s, grid_size_y, grid_size_x)
        /\ \A s \in Cells :
              max_possible_moves >= warnsdorff_tour(s, grid_size_y, grid_size_x)
        /\ max_possible_moves = calculate_max_moves(grid_size_y, grid_size_x)

\* C11 witness: a grid just reset whose tours have different lengths, the
\* longest of several steps.
C11_Witness ==
    /\ outcome = "reset"
    /\ FreshGame
    /\ max_possible_moves >= 8
    /\ \E s \in Cells :
          warnsdorff_tour(s, grid_size_y, grid_size_x) < max_possible_moves

\* C12: in every reachable state has_valid_moves() is true iff some in-bounds
\* unvisited cell (r, c) has is_valid_move(r, c) true, and it is true
\* whenever last_clicked is None.
C12_HasValidMovesAgrees ==
    /\ has_valid_moves(grid, last_clicked) <=>
          \E p \in Cells :
              /\ grid[p[1]][p[2]] = 0
              /\ is_valid_move(p[1], p[2]) = Return(TRUE)
    /\ last_clicked = None => has_valid_moves(grid, last_clicked)

\* C12 witness: a game has ended with cells left unvisited: has_valid_moves
\* is false and is_valid_move is false on each of them.
C12_Witness ==
    /\ last_clicked # None
    /\ ~has_valid_moves(grid, last_clicked)
    /\ Cardinality(CellsHolding(0)) >= 2
    /\ \A p \in CellsHolding(0) : is_valid_move(p[1], p[2]) = Return(FALSE)

\* the index k of the cell_size-wide band that holds pixel coordinate v
BandOf(v) ==
    CHOOSE k \in -1..(grid_size_y + grid_size_x) :
        k * cell_size <= v /\ v < (k + 1) * cell_size

\* the pixels of the text strip below the grid
InTextStrip(mouse_pos) ==
    /\ grid_size_y * cell_size <= mouse_pos[2]
    /\ mouse_pos[2] < grid_size_y * cell_size + 60

\* C13: a click at pixel (x, y) is converted to (row, col) =
\* (y // cell_size, x // cell_size); a click whose row or column is negative
\* or not below the grid dimension, which includes every click in the text
\* strip (row = grid_size_y), is rejected without a fault: the handler's
\* condition is false before is_valid_move reads the grid, and the state is
\* unchanged.
C13_OutOfGridClick ==
    /\ [](\A mouse_pos \in PixelPositions :
            /\ get_cell_position(mouse_pos) =
                  <<BandOf(mouse_pos[2]), BandOf(mouse_pos[1])>>
            /\ InTextStrip(mouse_pos) =>
                  /\ RowOf(mouse_pos) = grid_size_y
                  /\ ~InBounds(RowOf(mouse_pos), ColOf(mouse_pos)))
    /\ [][ \A mouse_pos \in PixelPositions :
              (/\ ~InBounds(BandOf(mouse_pos[2]), BandOf(mouse_pos[1]))
               /\ MouseButtonDown(mouse_pos)) =>
                  /\ click_condition(RowOf(mouse_pos), ColOf(mouse_pos))
                        = Return(FALSE)
                  /\ outcome' \in {"rejected", "ignored"}
                  /\ UNCHANGED <<game, max_possible_moves, running>> ]_vars

\* C13 witness: a click was rejected before any move was made, when only a
\* click outside the grid can be rejected.
C13_Witness ==
    /\ outcome = "rejected"
    /\ last_clicked = None
    /\ counter = 1
    /\ running
    /\ grid_size_y >= 3
    /\ grid_size_x >= 3

\* C14: in every active state with last_clicked set, the cells the render
\* step highlights are exactly the in-bounds cells whose click would be
\* accepted, and there is at least one; in a terminal state no cell is
\* highlighted.
C14_HighlightsAreMoves ==
    /\ (~game_over /\ last_clicked # None) =>
          /\ Highlighted =
                { p \in Cells : Acceptable(p[1], p[2])
                                  /\ click_condition(p[1], p[2]) = Return(TRUE) }
          /\ \A p \in Cells \ Highlighted :
                click_condition(p[1], p[2]) = Return(FALSE)
          /\ Highlighted # {}
    /\ game_over => Highlighted = {}

\* C14 witness: an active state with two or more highlighted cells and a
\* visited cell at a knight's move that is not highlighted.
C14_Witness ==
    /\ ~game_over
    /\ last_clicked # None
    /\ Cardinality(Highlighted) >= 2
    /\ \E p \in Cells \ Highlighted :
          Visited(p[1], p[2]) /\ KnightFromLast(p[1], p[2])

\* C15: in every reachable state the cells holding i and i + 1 are a
\* knight's move apart for every 1 <= i < counter - 1, and last_clicked is None
\* when counter = 1 and otherwise the position of the cell holding
\* counter - 1.
C15_KnightPath ==
    /\ \A i \in 1..(counter - 2) :
          \E p \in CellsHolding(i), q \in CellsHolding(i + 1) :
              << Abs(p[1] - q[1]), Abs(p[2] - q[2]) >> \in { <<2, 1>>, <<1, 2>> }
    /\ counter = 1 => last_clicked = None
    /\ counter > 1 => CellsHolding(counter - 1) = {last_clicked}

\* C15 witness: a path of at least five numbered cells.
C15_Witness ==
    /\ counter >= 6
    /\ CellsHolding(counter - 1) = {last_clicked}
    /\ CellsHolding(1) # {}

\* C16: counter never exceeds rows*cols + 1; a state with every cell visited
\* has game_over true; and when the player keeps clicking accepted cells,
\* every game that is not reset (nor quit) reaches game_over.
C16_EveryPlayEnds ==
    /\ [](counter <= grid_size_y * grid_size_x + 1)
    /\ [](CellsHolding(0) = {} => game_over)
    /\ []((~game_over /\ <<grid_size_y, grid_size_x>> # DefaultDims) =>
            <>(game_over \/ outcome = "reset" \/ ~running))

\* C16 witness: a game that ended with every cell of a grid of at least ten
\* cells visited.
C16_Witness ==
    /\ CellsHolding(0) = {}
    /\ counter = grid_size_y * grid_size_x + 1
    /\ grid_size_y * grid_size_x >= 10
    /\ game_over
    /\ outcome = "accepted"

\* the tour that starts at the cell holding 1
TourPlayed == TourOf(grid_size_y, grid_size_x, CHOOSE p \in CellsHolding(1) : TRUE)

\* the moves made so far are the first counter - 1 cells of that tour
FollowsTour ==
    /\ counter >= 2
    /\ counter - 1 <= Len(TourPlayed)
    /\ \A i \in 1..(counter - 1) :
          grid[TourPlayed[i][1]][TourPlayed[i][2]] = i

\* C17: every Warnsdorff tour of calculate_max_moves is a legal play: from a
\* fresh state its first cell is accepted, after each of its cells but the
\* last the game is active and the next cell is accepted, after its last
\* cell game_over is true and counter - 1 is the tour's length; one of the
\* tours has length max_possible_moves, and 1 <= max_possible_moves <=
\* rows*cols.
C17_EstimateAchievable ==
    /\ 1 <= max_possible_moves
    /\ max_possible_moves <= grid_size_y * grid_size_x
    /\ counter = 1 =>
          /\ \A s \in Cells : click_condition(s[1], s[2]) = Return(TRUE)
          /\ \E s \in Cells :
                Len(TourOf(grid_size_y, grid_size_x, s)) = max_possible_moves
    /\ FollowsTour =>
          IF counter - 1 < Len(TourPlayed)
          THEN /\ ~game_over
               /\ click_condition(TourPlayed[counter][1], TourPlayed[counter][2])
                     = Return(TRUE)
          ELSE /\ game_over
               /\ counter - 1 <= max_possible_moves
               /\ counter - 1 =
                     warnsdorff_tour(TourPlayed[1], grid_size_y, grid_size_x)

\* C17 witness: a game played along a Warnsdorff tour to its end, of
\* max_possible_moves moves.
C17_Witness ==
    /\ FollowsTour
    /\ game_over
    /\ counter - 1 = max_possible_moves
    /\ max_possible_moves >= 8

====
